---- MODULE Spec2Model ----
(***************************************************************************)
(* The DigitalVFO host scripts as one state machine.                       *)
(*                                                                         *)
(*   variant "sweep"   : control_software/test.py  (ID check + FS sweep)   *)
(*   variant "logger"  : pyInstrument/pyinstrument.py (VG; telemetry log)  *)
(*   variant "counter" : pyInstrument/serial_test.py  (CMD<n>; probe)      *)
(*                                                                         *)
(* together with the record parser of the plotting scripts charge2.py and  *)
(* discharge.py.  Text is a sequence of one-character strings.             *)
(***************************************************************************)
EXTENDS Integers, Sequences, FiniteSets, TLC

VARIABLES
    variant,        \* which script is running
    connected,      \* the serial endpoints the operating system reports
    teensy_devices, \* test.py: list of matching device names
    devices,        \* pyinstrument.py / serial_test.py: list of matching descriptors
    pc,             \* position of the script
    serPort,        \* the port handed to serial.Serial, NoPort before
    serState,       \* "none" | "open" | "closed"
    rx,             \* bytes sent by the device and not yet read (byte-level variants)
    c,              \* _readline: result of the last ser.read(1)
    buf,            \* _readline: the local bytearray `line`
    line,           \* main: the string returned by _readline
    answer,         \* test.py: the last line read
    freq,           \* test.py: loop variable of the sweep
    cmd_num,        \* serial_test.py: command counter
    cursor_index,   \* test.py: module-level cursor index
    cursor_sign,    \* test.py: module-level cursor direction
    now,            \* pyinstrument.py: the last datetime.now()
    disk,           \* contents of the output path: NoFile or a sequence of text lines
    fbuf,           \* lines written to f and not yet flushed
    nSent,          \* number of commands written to the port
    lastCmd,        \* the last command written to the port
    nResp,          \* number of lines read in answer to a command
    intr            \* an external interrupt (KeyboardInterrupt) was delivered

vars == <<variant, connected, teensy_devices, devices, pc, serPort, serState,
          rx, c, buf, line, answer, freq, cmd_num, cursor_index, cursor_sign,
          now, disk, fbuf, nSent, lastCmd, nResp, intr>>

-----------------------------------------------------------------------------
(* Bounds of the model *)

\* longest line (bytes before the newline) the device sends
MaxLine == 2
\* most bytes in flight from the device to the host
MaxRx == 1
\* most request/response cycles of the two unbounded loops
MaxCycles == 2

-----------------------------------------------------------------------------
(* Program constants *)

TeensyVendorID == 5824
TeensyProductID == 1155
FtdiVendorID == 1027
FtdiProductID == 24577
SweepStart == 1000000
SweepStop == 30000000
SweepStep == 1000

ProductName == <<"D", "i", "g", "i", "t", "a", "l", "V", "F", "O">>

NL == "\n"
CR == "\r"
NoByte == ""
NoPort == 0
NoFile == "nofile"
NoCmd == <<>>

-----------------------------------------------------------------------------
(* The environment: endpoints, device bytes, clock *)

\* what comports() can report: two Teensy boards and an FTDI board
Descriptors ==
    { [device |-> 1, vid |-> TeensyVendorID, pid |-> TeensyProductID,
       description |-> "USB Serial", manufacturer |-> "Teensyduino"],
      [device |-> 2, vid |-> TeensyVendorID, pid |-> TeensyProductID,
       description |-> "USB Serial", manufacturer |-> "Teensyduino"],
      [device |-> 3, vid |-> FtdiVendorID, pid |-> FtdiProductID,
       description |-> "FT232R USB UART", manufacturer |-> "FTDI"] }

Enumerations == SUBSET Descriptors

\* bytes of a response other than the newline
DataBytes == {"7", CR}

\* lines the device may answer to ID;
IdAnswers == { ProductName \o <<" ", "1">>, ProductName, <<"D", "i", "g">>,
               <<"V", "F", "O">>, <<>> }

\* lines the device may answer to FS<n>;
FsAnswers == { <<"O", "K">>, <<>> }

\* wall-clock readings: seconds and microseconds (one digit each), with and
\* without a fraction of a second
Times == [sec : {0}, usec : {0, 5}]

TimeLeq(a, b) == a.sec < b.sec \/ (a.sec = b.sec /\ a.usec <= b.usec)

\* what the output path holds before the script starts
OldRecord == <<"0", ".", "5", ",", "7">>
InitialDisks == { NoFile, <<OldRecord>> }

Variants == {"sweep", "logger", "counter"}

-----------------------------------------------------------------------------
(* Pure helpers of the scripts *)

\* every order in which comports() may list the set S
Orderings(S) ==
    { s \in [1..Cardinality(S) -> S] : \A i, j \in 1..Cardinality(S) : s[i] = s[j] => i = j }

\* sorted(comports()): ListPortInfo orders by device name
SortedPorts(S) ==
    CHOOSE s \in Orderings(S) : \A i, j \in 1..Cardinality(S) : i < j => s[i].device < s[j].device

\* test.py:18
IsTeensyByName(d) == d.description = "USB Serial" /\ d.manufacturer = "Teensyduino"

\* pyinstrument.py:54
IsTeensyById(d) == d.vid = TeensyVendorID /\ d.pid = TeensyProductID

\* serial_test.py:67
IsFtdiById(d) == d.vid = FtdiVendorID /\ d.pid = FtdiProductID

DeviceOf(d) == d.device

RECURSIVE MapDevice(_)
MapDevice(s) == IF s = <<>> THEN <<>> ELSE <<DeviceOf(Head(s))>> \o MapDevice(Tail(s))

\* the selection test `len(...) == 1`, misread as "at least one"
ExactlyOneMut(n) == n >= 1

\* the selection test `len(...) == 1` of all three scripts
ExactlyOne(n) == n = 1

\* str.startswith
StartsWith(s, p) == Len(s) >= Len(p) /\ SubSeq(s, 1, Len(p)) = p

\* the ID test with receiver and argument swapped
IdAcceptedMut(ans) == StartsWith(ProductName, ans)

\* test.py:31
IdAccepted(ans) == StartsWith(ans, ProductName)

\* range(1000000, 30000000, 1000): the stop bound taken as exclusive of 30,000,000
InSweepRangeMut(f) == f < SweepStop

\* range(1000000, 30000000+1, 1000)
InSweepRange(f) == f < SweepStop + 1

Exited == {"done", "exit1", "failed", "killed"}

-----------------------------------------------------------------------------
Init ==
    /\ variant \in Variants
    /\ connected \in Enumerations
    /\ teensy_devices = <<>>
    /\ devices = <<>>
    /\ pc = "start"
    /\ serPort = NoPort
    /\ serState = "none"
    /\ rx = <<>>
    /\ c = NoByte
    /\ buf = <<>>
    /\ line = <<>>
    /\ answer = <<>>
    /\ freq = 0
    /\ cmd_num = 0
    /\ cursor_index = 0
    /\ cursor_sign = 1
    /\ now = [sec |-> 0, usec |-> 0]
    /\ disk \in (IF variant = "logger" THEN InitialDisks ELSE {NoFile})
    /\ fbuf = <<>>
    /\ nSent = 0
    /\ lastCmd = NoCmd
    /\ nResp = 0
    /\ intr = FALSE

serVars == <<serPort, serState>>
readVars == <<rx, c, buf, line>>
sweepVars == <<answer, freq, cursor_index, cursor_sign>>
fileVars == <<now, disk, fbuf>>
wireVars == <<nSent, lastCmd, nResp>>
envVars == <<variant, connected>>
listVars == <<teensy_devices, devices, cmd_num>>

-----------------------------------------------------------------------------
(* control_software/test.py *)

\* lines 12-20: list the ports (in the order the platform gives) and keep the Teensys
SweepEnumerate ==
    /\ variant = "sweep" /\ pc = "start"
    /\ \E order \in Orderings(connected) :
          teensy_devices' = MapDevice(SelectSeq(order, IsTeensyByName))
    /\ pc' = "select"
    /\ UNCHANGED <<envVars, devices, cmd_num, serVars, readVars, sweepVars, fileVars, wireVars, intr>>

\* lines 22-25: exactly one Teensy, the port opens
SweepOpen ==
    /\ variant = "sweep" /\ pc = "select"
    /\ ExactlyOne(Len(teensy_devices))
    /\ serPort' = teensy_devices[1]
    /\ serState' = "open"
    /\ pc' = "id_write"
    /\ UNCHANGED <<envVars, listVars, readVars, sweepVars, fileVars, wireVars, intr>>

\* line 24 raising SerialException: fatal, nothing is retried
SweepOpenFails ==
    /\ variant = "sweep" /\ pc = "select"
    /\ ExactlyOne(Len(teensy_devices))
    /\ pc' = "failed"
    /\ UNCHANGED <<envVars, listVars, serVars, readVars, sweepVars, fileVars,
                   wireVars, intr>>

\* lines 42-45: none or several, a message and the end of the script
SweepNoChoice ==
    /\ variant = "sweep" /\ pc = "select"
    /\ ~ExactlyOne(Len(teensy_devices))
    /\ pc' = "done"
    /\ UNCHANGED <<envVars, listVars, serVars, readVars, sweepVars, fileVars,
                   wireVars, intr>>

\* lines 28-29
SweepWriteId ==
    /\ variant = "sweep" /\ pc = "id_write"
    /\ nSent' = nSent + 1
    /\ lastCmd' = <<"ID">>
    /\ pc' = "id_read"
    /\ UNCHANGED <<envVars, listVars, serVars, readVars, sweepVars, fileVars,
                   nResp, intr>>

\* line 30: readline() of a port opened without timeout returns a whole line
SweepReadId ==
    /\ variant = "sweep" /\ pc = "id_read"
    /\ \E a \in IdAnswers : answer' = a
    /\ nResp' = nResp + 1
    /\ pc' = "id_check"
    /\ UNCHANGED <<envVars, listVars, serVars, readVars, freq, cursor_index,
                   cursor_sign, fileVars, nSent, lastCmd, intr>>

\* lines 31-33: not a DigitalVFO, sys.exit(1)
SweepIdRejected ==
    /\ variant = "sweep" /\ pc = "id_check"
    /\ ~IdAccepted(answer)
    /\ pc' = "exit1"
    /\ UNCHANGED <<envVars, listVars, serVars, readVars, sweepVars, fileVars,
                   wireVars, intr>>

\* lines 31, 35: the check passes and the loop takes its first value
SweepIdAccepted ==
    /\ variant = "sweep" /\ pc = "id_check"
    /\ IdAccepted(answer)
    /\ freq' = SweepStart
    /\ pc' = IF InSweepRange(SweepStart) THEN "fs_write" ELSE "close"
    /\ UNCHANGED <<envVars, listVars, serVars, readVars, answer, cursor_index,
                   cursor_sign, fileVars, wireVars, intr>>

\* lines 36-37
SweepWriteFs ==
    /\ variant = "sweep" /\ pc = "fs_write"
    /\ nSent' = nSent + 1
    /\ lastCmd' = <<"FS", freq>>
    /\ pc' = "fs_read"
    /\ UNCHANGED <<envVars, listVars, serVars, readVars, sweepVars, fileVars,
                   nResp, intr>>

\* line 38
SweepReadFs ==
    /\ variant = "sweep" /\ pc = "fs_read"
    /\ \E a \in FsAnswers : answer' = a
    /\ nResp' = nResp + 1
    /\ pc' = "fs_sleep"
    /\ UNCHANGED <<envVars, listVars, serVars, readVars, freq, cursor_index,
                   cursor_sign, fileVars, nSent, lastCmd, intr>>

\* lines 39, 35: the sleep ends and range() gives its next value, if any
SweepNext ==
    /\ variant = "sweep" /\ pc = "fs_sleep"
    /\ IF InSweepRange(freq + SweepStep)
          THEN freq' = freq + SweepStep /\ pc' = "fs_write"
          ELSE freq' = freq /\ pc' = "close"
    /\ UNCHANGED <<envVars, listVars, serVars, readVars, answer, cursor_index,
                   cursor_sign, fileVars, wireVars, intr>>

\* line 41
SweepClose ==
    /\ variant = "sweep" /\ pc = "close"
    /\ serState' = "closed"
    /\ pc' = "done"
    /\ UNCHANGED <<envVars, listVars, serPort, readVars, sweepVars, fileVars,
                   wireVars, intr>>

\* KeyboardInterrupt while the port is open: test.py has no handler and no
\* with-block, the exception ends the script and ser.close() is never called
SweepInterrupt ==
    /\ variant = "sweep" /\ serState = "open" /\ pc \notin Exited
    /\ intr' = TRUE
    /\ pc' = "killed"
    /\ UNCHANGED <<envVars, listVars, serVars, readVars, sweepVars, fileVars,
                   wireVars>>

NextSweep ==
    \/ SweepEnumerate \/ SweepOpen \/ SweepOpenFails \/ SweepNoChoice
    \/ SweepWriteId \/ SweepReadId \/ SweepIdRejected \/ SweepIdAccepted
    \/ SweepWriteFs \/ SweepReadFs \/ SweepNext \/ SweepClose \/ SweepInterrupt

InitSweep == Init /\ variant = "sweep"

SpecSweep == InitSweep /\ [][NextSweep]_vars

-----------------------------------------------------------------------------
(* _readline and the device, shared by pyinstrument.py and serial_test.py *)

Reading == {"vg_read", "banner", "read"}

\* where main goes on after _readline returns
AfterRead(p) == CASE p = "vg_read" -> "record" [] p = "banner" -> "send" [] OTHER -> "post"

\* a line read at "banner" answers no command
Answered(p) == IF p = "banner" THEN 0 ELSE 1

RECURSIVE SinceNewline(_)
\* bytes of rx after its last newline
SinceNewline(q) ==
    IF q = <<>> THEN <<>>
    ELSE IF q[Len(q)] = NL THEN <<>>
    ELSE Append(SinceNewline(SubSeq(q, 1, Len(q) - 1)), q[Len(q)])

HasNewline(q) == \E i \in 1..Len(q) : q[i] = NL

\* length of the line the device is in the middle of
PendingLen == IF HasNewline(rx) THEN Len(SinceNewline(rx)) ELSE Len(buf) + Len(rx)

\* the device puts one more byte on the wire
DeviceSend ==
    /\ variant \in {"logger", "counter"}
    /\ serState = "open" /\ pc \notin Exited
    /\ Len(rx) < MaxRx
    /\ \E b \in DataBytes \cup {NL} :
          /\ b # NL => PendingLen < MaxLine
          /\ rx' = Append(rx, b)
    /\ UNCHANGED <<envVars, listVars, pc, serVars, c, buf, line, sweepVars, fileVars,
                   wireVars, intr>>

\* the process has ended: the locals of main and _readline are gone and the
\* bytes it had not read are dropped
ProcessGone ==
    /\ rx' = <<>>
    /\ c' = NoByte
    /\ buf' = <<>>
    /\ line' = <<>>
    /\ now' = [sec |-> 0, usec |-> 0]

\* _readline, `c = ser.read(1)` with a byte available: lines 62-67 (71-80)
ReadByte ==
    /\ pc \in Reading /\ rx # <<>>
    /\ c' = Head(rx)
    /\ rx' = Tail(rx)
    /\ IF Head(rx) = NL
          THEN /\ line' = buf
               /\ buf' = <<>>
               /\ pc' = AfterRead(pc)
               /\ nResp' = nResp + Answered(pc)
          ELSE /\ buf' = Append(buf, Head(rx))
               /\ UNCHANGED <<line, pc, nResp>>
    /\ UNCHANGED <<envVars, listVars, serVars, sweepVars, fileVars, nSent, lastCmd, intr>>

\* _readline written to give up on an empty read: `if not c: break`
ReadTimeoutMut ==
    /\ variant = "counter"
    /\ pc \in Reading /\ rx = <<>>
    /\ c' = NoByte
    /\ line' = buf
    /\ buf' = <<>>
    /\ pc' = AfterRead(pc)
    /\ nResp' = nResp + Answered(pc)
    /\ UNCHANGED <<envVars, listVars, serVars, rx, sweepVars, fileVars, nSent, lastCmd, intr>>

\* _readline, `c = ser.read(1)` returning b'' after the 1 s timeout of
\* serial_test.py:93; `if c:` skips it and the loop reads again
ReadTimeout ==
    /\ variant = "counter"
    /\ pc \in Reading /\ rx = <<>>
    /\ c' = NoByte
    /\ UNCHANGED <<envVars, listVars, pc, serVars, rx, buf, line, sweepVars, fileVars,
                   wireVars, intr>>

-----------------------------------------------------------------------------
(* pyInstrument/pyinstrument.py *)

Digit(n) == <<"0", "1", "2", "3", "4", "5", "6", "7", "8", "9">>[n + 1]

\* datetime.isoformat(): the fraction is left out when microsecond is 0
IsoFormat(t) == <<Digit(t.sec)>> \o (IF t.usec = 0 THEN <<>> ELSE <<".", Digit(t.usec)>>)

\* line[:-1]
DropLast(s) == IF s = <<>> THEN <<>> ELSE SubSeq(s, 1, Len(s) - 1)

\* line 85: f'{dt},{line[:-1]}'
RecordText(t, l) == IsoFormat(t) \o <<",">> \o DropLast(l)

\* open(out_file, 'a'): the path is opened without truncating
OpenForWriteMut(d) == IF d = NoFile THEN <<>> ELSE d

\* open(out_file, 'w'): the path is created or truncated
OpenForWrite(d) == <<>>

\* f.flush() left out: the line stays in the buffer of f
FlushedMut(d, b) == [disk |-> d, buf |-> b]

\* f.flush(): the buffered lines reach the file
Flushed(d, b) == [disk |-> d \o b, buf |-> <<>>]

\* lines 70-74
LogEnumerate ==
    /\ variant = "logger" /\ pc = "start"
    /\ devices' = SelectSeq(SortedPorts(connected), IsTeensyById)
    /\ pc' = "select"
    /\ UNCHANGED <<envVars, teensy_devices, cmd_num, serVars, rx, c, buf, line, sweepVars,
                   fileVars, wireVars, intr>>

\* lines 77-78
LogOpenFile ==
    /\ variant = "logger" /\ pc = "select"
    /\ ExactlyOne(Len(devices))
    /\ disk' = OpenForWrite(disk)
    /\ pc' = "open_port"
    /\ UNCHANGED <<envVars, listVars, serVars, rx, c, buf, line, sweepVars, now, fbuf,
                   wireVars, intr>>

\* line 77 false: main returns
LogNoChoice ==
    /\ variant = "logger" /\ pc = "select"
    /\ ~ExactlyOne(Len(devices))
    /\ pc' = "done"
    /\ UNCHANGED <<envVars, listVars, serVars, rx, c, buf, line, sweepVars, fileVars,
                   wireVars, intr>>

\* line 79
LogOpenPort ==
    /\ variant = "logger" /\ pc = "open_port"
    /\ serPort' = DeviceOf(devices[1])
    /\ serState' = "open"
    /\ pc' = "vg_write"
    /\ UNCHANGED <<envVars, listVars, rx, c, buf, line, sweepVars, fileVars, wireVars, intr>>

\* line 79 raising SerialException
LogOpenPortFails ==
    /\ variant = "logger" /\ pc = "open_port"
    /\ pc' = "failed"
    /\ UNCHANGED <<envVars, listVars, serVars, rx, c, buf, line, sweepVars, fileVars,
                   wireVars, intr>>

\* line 81
LogWrite ==
    /\ variant = "logger" /\ pc = "vg_write"
    /\ nSent < MaxCycles
    /\ nSent' = nSent + 1
    /\ lastCmd' = <<"VG">>
    /\ pc' = "vg_read"
    /\ UNCHANGED <<envVars, listVars, serVars, rx, c, buf, line, sweepVars, fileVars,
                   nResp, intr>>

\* lines 83-86: the clock is read (it does not run backwards) and the record is
\* written to the buffered file object
LogRecord ==
    /\ variant = "logger" /\ pc = "record"
    /\ \E t \in Times :
          /\ TimeLeq(now, t)
          /\ now' = t
          /\ fbuf' = Append(fbuf, RecordText(t, line))
    /\ pc' = "flush"
    /\ UNCHANGED <<envVars, listVars, serVars, rx, c, buf, line, sweepVars, disk,
                   wireVars, intr>>

\* line 87
LogFlush ==
    /\ variant = "logger" /\ pc = "flush"
    /\ disk' = Flushed(disk, fbuf).disk
    /\ fbuf' = Flushed(disk, fbuf).buf
    /\ pc' = "sleep"
    /\ UNCHANGED <<envVars, listVars, serVars, rx, c, buf, line, sweepVars, now,
                   wireVars, intr>>

\* line 88
LogSleep ==
    /\ variant = "logger" /\ pc = "sleep"
    /\ pc' = "vg_write"
    /\ UNCHANGED <<envVars, listVars, serVars, rx, c, buf, line, sweepVars, fileVars,
                   wireVars, intr>>

LogInWith == {"vg_write", "vg_read", "record", "flush", "sleep"}

\* KeyboardInterrupt inside the with-block of line 79: Serial.__exit__ closes the
\* port and the exception ends the script; the interpreter may or may not get
\* to flush f while it shuts down
LogInterrupt ==
    /\ variant = "logger" /\ pc \in LogInWith
    /\ intr' = TRUE
    /\ serState' = "closed"
    /\ \E flushed \in BOOLEAN : disk' = IF flushed THEN disk \o fbuf ELSE disk
    /\ fbuf' = <<>>
    /\ pc' = "killed"
    /\ ProcessGone
    /\ UNCHANGED <<envVars, listVars, serPort, sweepVars, wireVars>>

\* the process is killed outright: what f still buffers is lost
LogKill ==
    /\ variant = "logger" /\ pc \in LogInWith \cup {"open_port"}
    /\ fbuf' = <<>>
    /\ pc' = "killed"
    /\ ProcessGone
    /\ UNCHANGED <<envVars, listVars, serVars, sweepVars, disk, wireVars, intr>>

NextLogger ==
    \/ LogEnumerate \/ LogOpenFile \/ LogNoChoice \/ LogOpenPort \/ LogOpenPortFails
    \/ LogWrite \/ (variant = "logger" /\ ReadByte) \/ LogRecord \/ LogFlush \/ LogSleep
    \/ LogInterrupt \/ LogKill \/ (variant = "logger" /\ DeviceSend)

InitLogger == Init /\ variant = "logger"

SpecLogger == InitLogger /\ [][NextLogger]_vars

-----------------------------------------------------------------------------
(* pyInstrument/serial_test.py *)

Whitespace == {" ", CR, NL, "\t"}

RECURSIVE LStrip(_)
LStrip(s) == IF s # <<>> /\ Head(s) \in Whitespace THEN LStrip(Tail(s)) ELSE s

RECURSIVE RStrip(_)
RStrip(s) ==
    IF s # <<>> /\ s[Len(s)] \in Whitespace THEN RStrip(SubSeq(s, 1, Len(s) - 1)) ELSE s

\* str.strip()
Strip(s) == RStrip(LStrip(s))

\* lines 83-87
CntEnumerate ==
    /\ variant = "counter" /\ pc = "start"
    /\ devices' = SelectSeq(SortedPorts(connected), IsFtdiById)
    /\ pc' = "select"
    /\ UNCHANGED <<envVars, teensy_devices, cmd_num, serVars, rx, c, buf, line, sweepVars,
                   fileVars, wireVars, intr>>

\* the probe written without line 95: no banner line is read first
CntAfterOpenMut == "send"

\* line 95 follows the opening of the port
CntAfterOpen == "opened"

\* lines 90-93
CntOpen ==
    /\ variant = "counter" /\ pc = "select"
    /\ ExactlyOne(Len(devices))
    /\ cmd_num' = 0
    /\ serPort' = DeviceOf(devices[1])
    /\ serState' = "open"
    /\ pc' = CntAfterOpen
    /\ UNCHANGED <<envVars, teensy_devices, devices, rx, c, buf, line, sweepVars, fileVars,
                   wireVars, intr>>

\* line 93 raising SerialException
CntOpenFails ==
    /\ variant = "counter" /\ pc = "select"
    /\ ExactlyOne(Len(devices))
    /\ pc' = "failed"
    /\ UNCHANGED <<envVars, listVars, serVars, rx, c, buf, line, sweepVars, fileVars,
                   wireVars, intr>>

\* line 90 false, line 111
CntNoChoice ==
    /\ variant = "counter" /\ pc = "select"
    /\ ~ExactlyOne(Len(devices))
    /\ pc' = "done"
    /\ UNCHANGED <<envVars, listVars, serVars, rx, c, buf, line, sweepVars, fileVars,
                   wireVars, intr>>

\* line 94: the try block is entered; line 95 is then the first _readline
CntEnterTry ==
    /\ variant = "counter" /\ pc = "opened"
    /\ pc' = "banner"
    /\ UNCHANGED <<envVars, listVars, serVars, rx, c, buf, line, sweepVars, fileVars,
                   wireVars, intr>>

\* lines 97-100
CntSend ==
    /\ variant = "counter" /\ pc = "send"
    /\ cmd_num < MaxCycles
    /\ lastCmd' = <<"CMD", cmd_num>>
    /\ nSent' = nSent + 1
    /\ cmd_num' = cmd_num + 1
    /\ pc' = "read"
    /\ UNCHANGED <<envVars, teensy_devices, devices, serVars, rx, c, buf, line, sweepVars,
                   fileVars, nResp, intr>>

\* lines 102-106: the line is stripped and printed with a timestamp
CntPost ==
    /\ variant = "counter" /\ pc = "post"
    /\ line' = Strip(line)
    /\ pc' = "sleep"
    /\ UNCHANGED <<envVars, listVars, serVars, rx, c, buf, sweepVars, fileVars,
                   wireVars, intr>>

\* line 107
CntSleep ==
    /\ variant = "counter" /\ pc = "sleep"
    /\ pc' = "send"
    /\ UNCHANGED <<envVars, listVars, serVars, rx, c, buf, line, sweepVars, fileVars,
                   wireVars, intr>>

CntInTry == {"banner", "send", "read", "post", "sleep"}

\* lines 108-111: KeyboardInterrupt inside the try block
CntInterrupt ==
    /\ variant = "counter" /\ pc \in CntInTry
    /\ intr' = TRUE
    /\ serState' = "closed"
    /\ pc' = "done"
    /\ ProcessGone
    /\ UNCHANGED <<envVars, listVars, serPort, sweepVars, disk, fbuf, wireVars>>

\* KeyboardInterrupt after line 93 and before the try block: no handler is active
CntInterruptEarly ==
    /\ variant = "counter" /\ pc = "opened"
    /\ intr' = TRUE
    /\ pc' = "killed"
    /\ ProcessGone
    /\ UNCHANGED <<envVars, listVars, serVars, sweepVars, disk, fbuf, wireVars>>

NextCounter ==
    \/ CntEnumerate \/ CntOpen \/ CntOpenFails \/ CntNoChoice \/ CntEnterTry
    \/ (variant = "counter" /\ ReadByte) \/ ReadTimeout \/ CntSend \/ CntPost \/ CntSleep
    \/ CntInterrupt \/ CntInterruptEarly \/ (variant = "counter" /\ DeviceSend)

InitCounter == Init /\ variant = "counter"

SpecCounter == InitCounter /\ [][NextCounter]_vars

-----------------------------------------------------------------------------
Next == NextSweep \/ NextLogger \/ NextCounter

Spec == Init /\ [][Next]_vars

-----------------------------------------------------------------------------
(* pyInstrument/charge2.py and discharge.py: reading a record back *)

Digits == {"0", "1", "2", "3", "4", "5", "6", "7", "8", "9"}

DigitValue(ch) == CHOOSE n \in 0..9 : Digit(n) = ch

RECURSIVE Split(_, _)
\* str.split(sep)
Split(s, sep) ==
    IF \A i \in 1..Len(s) : s[i] # sep THEN <<s>>
    ELSE LET i == CHOOSE k \in 1..Len(s) : s[k] = sep /\ \A j \in 1..(k - 1) : s[j] # sep
         IN  <<SubSeq(s, 1, i - 1)>> \o Split(SubSeq(s, i + 1, Len(s)), sep)

\* float(volts): some digits, white space around them allowed
IsFloat(s) == Strip(s) # <<>> /\ \A i \in 1..Len(Strip(s)) : Strip(s)[i] \in Digits

\* charge2.py:23, strptime with '...%S.%f': seconds, a point, one to six digits
ParsesCharge2(ts) ==
    /\ Len(ts) >= 3 /\ Len(ts) <= 8
    /\ ts[1] \in Digits /\ ts[2] = "."
    /\ \A i \in 3..Len(ts) : ts[i] \in Digits

\* discharge.py:24, strptime with '...%S': seconds and nothing after them
ParsesDischarge(ts) == Len(ts) = 1 /\ ts[1] \in Digits

\* the instant a parsed timestamp stands for, in tenths of a second
Instant(ts) == 10 * DigitValue(ts[1]) + (IF Len(ts) >= 3 THEN DigitValue(ts[3]) ELSE 0)

\* charge2.py:21-29: the line is read back; << >> when the script raises
ReadCharge2(text) ==
    LET fields == Split(Strip(text), ",")
    IN  IF Len(fields) = 2 /\ IsFloat(fields[2]) /\ ParsesCharge2(fields[1])
        THEN <<[time |-> Instant(fields[1]), volts |-> fields[2]]>> ELSE <<>>

\* discharge.py:22-30: the line is read back; << >> when the script raises
ReadDischarge(text) ==
    LET fields == Split(Strip(text), ",")
    IN  IF Len(fields) = 2 /\ IsFloat(fields[2]) /\ ParsesDischarge(fields[1])
        THEN <<[time |-> Instant(fields[1]), volts |-> fields[2]]>> ELSE <<>>

-----------------------------------------------------------------------------
(* Properties *)

IsPrefix(s, t) == Len(s) <= Len(t) /\ SubSeq(t, 1, Len(s)) = s

Contents(d) == IF d = NoFile THEN <<>> ELSE d

\* the connected descriptors the running script looks for
Matching ==
    { d \in connected :
        CASE variant = "sweep" -> d.description = "USB Serial" /\ d.manufacturer = "Teensyduino"
          [] variant = "logger" -> d.vid = 5824 /\ d.pid = 1155
          [] OTHER -> d.vid = 1027 /\ d.pid = 24577 }

\* C1: a serial port is opened only when exactly one connected descriptor
\* matched, and it is that descriptor's port; when none or several match, no
\* step opens a port, writes a command, or creates or writes the output file.
C1_DeviceGate ==
    [][ /\ serPort' # NoPort =>
              /\ Cardinality(Matching) = 1
              /\ \E d \in Matching : d.device = serPort'
        /\ serState' # "none" => serPort' # NoPort
        /\ Cardinality(Matching) # 1 =>
              /\ serPort' = NoPort /\ serState' = "none"
              /\ nSent' = 0
              /\ disk' = disk /\ fbuf' = fbuf /\ fbuf = <<>> ]_vars

\* C1: a single match among two connected endpoints, its port open
C1_Witness ==
    /\ serState = "open" /\ Cardinality(connected) = 2 /\ Cardinality(Matching) = 1
    /\ \E d \in Matching : d.device = serPort

\* C2: after the ID check the sweep writes FS1000000; first, each later command
\* is FS<previous + 1000>;, and when the script has closed the port it has
\* written exactly 29,001 FS commands, the last FS30000000;, and writes no more.
C2_FiniteSweep ==
    [][ /\ (nSent' = nSent + 1 /\ nSent >= 1) =>
              lastCmd' = <<"FS", IF nSent = 1 THEN 1000000 ELSE lastCmd[2] + 1000>>
        /\ (pc' = "done" /\ serState' = "closed") =>
              (nSent' = 29001 + 1 /\ lastCmd' = <<"FS", 30000000>>)
        /\ pc \in {"close", "done"} => nSent' = nSent ]_vars

\* C2: the sweep has run to its end
C2_Witness == pc = "done" /\ serState = "closed" /\ nSent = 29002 /\ nResp = 29002

\* C3: the first command written is ID;, and when the line read in answer does
\* not begin with DigitalVFO the script exits at once: no further command is
\* written and no file is touched.
C3_IdCheck ==
    [][ /\ nSent' = 1 => lastCmd' = <<"ID">>
        /\ (pc = "id_check" /\ ~StartsWith(answer, <<"D", "i", "g", "i", "t", "a", "l", "V", "F", "O">>)) =>
              /\ pc' \in {"exit1", "killed"}
              /\ nSent' = nSent /\ lastCmd' = lastCmd
              /\ disk' = disk /\ fbuf' = fbuf
        /\ pc # "exit1" ]_vars

\* C3: the script has exited on a foreign ID line after writing ID; only
C3_Witness == pc = "exit1" /\ nSent = 1 /\ lastCmd = <<"ID">> /\ answer = <<"D", "i", "g">>

\* C4 (as claimed): whenever an interrupt has ended a script whose port was
\* open, the serial connection has been closed.
C4_InterruptClosesPort == (intr /\ pc \in Exited) => serState = "closed"

\* what both plotting scripts make of one record line of the log
RoundTrip(text, resp) ==
    /\ ReadCharge2(text) # <<>> /\ ReadCharge2(text)[1].volts = resp
    /\ ReadDischarge(text) # <<>> /\ ReadDischarge(text)[1].volts = resp

\* C5 (as claimed): every record of the log reads back in the plotting scripts
\* as two fields, the second being the response that was written, and the
\* times read back never decrease along the log.
C5_RoundTrip ==
    (variant = "logger" /\ pc = "sleep") =>
        /\ RoundTrip(disk[Len(disk)], DropLast(line))
        /\ \A i \in 1..Len(disk) : ReadCharge2(disk[i]) # <<>>
        /\ \A i, j \in 1..Len(disk) :
              i <= j => ReadCharge2(disk[i])[1].time <= ReadCharge2(disk[j])[1].time

\* C6: every response is recorded and flushed before the sleep begins, so the
\* records in the file are never fewer than the responses received minus one,
\* whatever interrupt or kill ends the script.
C6_Durability ==
    variant = "logger" =>
        /\ Len(Contents(disk)) >= nResp - 1
        /\ pc \in {"flush", "sleep"} => Len(disk) + Len(fbuf) = nResp
        /\ pc \in {"sleep", "vg_write", "vg_read"} => (Len(disk) = nResp /\ fbuf = <<>>)

\* C6: the script was killed with its second response read and not yet flushed
C6_Witness ==
    variant = "logger" /\ pc = "killed" /\ ~intr /\ nResp = 2 /\ Len(Contents(disk)) = 1

\* C7 (as claimed): at every step the earlier contents of the output path are a
\* prefix of its later contents.
C7_AppendOnlyAlways == [][IsPrefix(Contents(disk), Contents(disk'))]_vars

\* C7 (amended): once the session has opened the output file, every step keeps
\* the file's earlier contents as a prefix of its later contents; the opening
\* itself leaves an empty file, whatever the path held.
C7_AppendOnlyInSession ==
    [][ /\ pc \notin {"start", "select"} => IsPrefix(disk, disk')
        /\ (pc = "select" /\ pc' = "open_port") => disk' = <<>> ]_vars

\* C7: two cycles have appended two different records
C7_Witness ==
    variant = "logger" /\ pc = "sleep" /\ Len(disk) = 2 /\ disk[1] # disk[2] /\ nSent = 2

\* C8 (as claimed): every command of the sweep loop moves the cursor index by
\* exactly one within 0..7, in the direction of the sign, which reverses at 0
\* and at 7.
C8_CursorBounces ==
    [][ (variant = "sweep" /\ pc = "fs_write" /\ nSent' = nSent + 1) =>
            /\ cursor_index' \in 0..7
            /\ cursor_index' = cursor_index + cursor_sign
            /\ cursor_sign' = IF cursor_index' \in {0, 7} THEN -cursor_sign ELSE cursor_sign ]_vars

\* a read of one byte that times out: nothing was there to read
TimedOut == pc \in Reading /\ rx = <<>> /\ rx' = rx /\ c' = NoByte /\ intr' = intr

\* C9 (as claimed): when the read timeout elapses the line read returns, giving
\* the partial or empty line received so far.
C9_TimeoutReturns == [][TimedOut => (pc' \notin Reading /\ line' = buf)]_vars

\* C9 (amended): the line read returns only on receiving a newline, giving the
\* bytes received before it; a read timeout is skipped, the partial line is
\* kept and the read goes on.
C9_ReturnsOnNewlineOnly ==
    [][ /\ (pc \in Reading /\ pc' \notin Reading /\ intr' = intr) =>
              (rx # <<>> /\ Head(rx) = NL /\ c' = NL /\ line' = buf)
        /\ TimedOut => (pc' = pc /\ buf' = buf /\ line' = line /\ nResp' = nResp) ]_vars

\* C9: after a command, a read has timed out on a partial line and goes on
C9_Witness == variant = "counter" /\ pc = "read" /\ c = NoByte /\ buf # <<>> /\ nSent >= 1

\* the command the running script writes as its (k+1)-th
ExpectedCmd(k) ==
    CASE variant = "sweep" -> IF k = 0 THEN <<"ID">> ELSE <<"FS", 1000000 + 1000 * (k - 1)>>
      [] variant = "logger" -> <<"VG">>
      [] OTHER -> <<"CMD", k>>

\* C10: at most one command is unanswered; a command is written only when every
\* earlier one has had its whole line read, the last byte read then being the
\* newline; the counter script has read a banner line before its first
\* command, and its k-th command is CMD<k>;.
C10_Alternation ==
    [][ /\ nSent' - nResp' \in {0, 1}
        /\ nSent' = nSent + 1 =>
              /\ nResp = nSent
              /\ lastCmd' = ExpectedCmd(nSent)
              /\ (variant = "counter" \/ (variant = "logger" /\ nSent > 0)) => c = NL ]_vars

\* C10: the counter script waits for the answer to its second command
C10_Witness ==
    variant = "counter" /\ pc = "read" /\ nSent = 2 /\ nResp = 1 /\ lastCmd = <<"CMD", 1>>

====
